---- MODULE Spec2Model ----
(***************************************************************************)
(* NumberGame.py: a two-player counting game.  A NumberGame holds goal,    *)
(* min_step, max_step, current, players and turn; play() runs              *)
(* play_one_turn() while current < goal and returns the name of            *)
(* whose_turn(turn - 1).  main() reads the settings, makes the two players *)
(* and plays one fresh NumberGame per round.                               *)
(***************************************************************************)
EXTENDS Integers, Sequences, FiniteSets, TLC

VARIABLES
    goal,        \* NumberGame.goal
    min_step,    \* NumberGame.min_step
    max_step,    \* NumberGame.max_step
    current,     \* NumberGame.current
    players,     \* NumberGame.players: <<p1, p2>>, each [name, kind]
    turn,        \* NumberGame.turn
    pc,          \* where main()/play() stands
    amount,      \* play_one_turn's local `amount` (the last move returned)
    winner,      \* the player play() chose: seat in players (0: none yet), name
    log,         \* the turns printed this round: [mover, amount, total]
    asked,       \* inputs rejected so far by the running UserPlayer.move call
    invalid,     \* "Invalid move. Try Again!" lines printed by the latest
                 \* UserPlayer.move call (running or returned)
    round,       \* number of NumberGame objects main() has constructed
    prevLog,     \* the turns printed in the previous round
    prevWinner,  \* the player the previous round's play() chose
    error        \* the exception that ended the program ("" if none)

vars == <<goal, min_step, max_step, current, players, turn, pc, amount,
          winner, log, asked, invalid, round, prevLog, prevWinner, error>>

(***************************************************************************)
(* Bounds of the model.                                                    *)
(***************************************************************************)
\* largest goal main() is given in the general specification
MaxGoal == 4
\* largest goal in the specification with two StrategicPlayers
MaxGreedyGoal == 10
\* largest goal in the specification with min_step = max_step
MaxFixedGoal == 7
\* out-of-range inputs one UserPlayer.move call is fed before the model stops
MaxRetry == 2
\* rounds main() plays before the model stops answering 'y'
MaxRounds == 2

\* turns after which the model stops a round that does not end
\* (a valid round needs at most goal turns)
MaxTurn == MaxGoal + 3
MaxGreedyTurn == MaxGreedyGoal + 3
MaxFixedTurn == MaxFixedGoal + 3

\* the names typed for p1 and p2 (names need not differ)
P1Names == {"ann"}
P2Names == {"ann", "bob"}
PlayerTypes == {"random", "user", "strategic", "other"}

(***************************************************************************)
(* Python arithmetic.                                                      *)
(***************************************************************************)
\* Python's a % b: the result has the sign of b
PyMod(a, b) == IF b > 0 THEN a % b ELSE -((-a) % (-b))

\* ceil(a / b) for b > 0
CeilDiv(a, b) == (a + b - 1) \div b

(***************************************************************************)
(* NumberGame                                                              *)
(***************************************************************************)
\* the precondition of NumberGame.__init__
ValidConfig == 0 < min_step /\ min_step <= max_step /\ max_step <= goal

whose_turn_swapped(t) == IF PyMod(t, 2) = 0 THEN 2 ELSE 1

\* NumberGame.whose_turn: the index (1 or 2) in players
whose_turn(t) == IF PyMod(t, 2) = 0 THEN 1 ELSE 2

play_winner_next == whose_turn(turn)

\* play(): winner = self.whose_turn(self.turn - 1)
play_winner == whose_turn(turn - 1)

(***************************************************************************)
(* Players                                                                 *)
(***************************************************************************)
\* random.randint(min_step, max_step): the values it may return
RandomMoves(mn, mx) == mn .. mx

\* random.randint raises ValueError on an empty range
RandomRaises(mn, mx) == mn > mx

UserAccepts_NoUpper(move, mn, mx) == mn <= move

\* UserPlayer.move: if min_step <= move <= max_step
UserAccepts(move, mn, mx) == mn <= move /\ move <= mx

StrategicMove_FloorDiv(cur, mn, mx, gl) ==
    LET remaining == gl - cur IN
    IF remaining >= mx THEN mx
    ELSE IF remaining < mn THEN mn
    ELSE remaining \div (mx + 1)

StrategicMove_MinFirst(cur, mn, mx, gl) ==
    LET remaining == gl - cur IN
    IF remaining >= mx THEN mn
    ELSE IF remaining < mn THEN mn
    ELSE PyMod(remaining, mx + 1)


StrategicMove_EagerMax(cur, mn, mx, gl) ==
    LET remaining == gl - cur IN
    IF remaining >= mn THEN mx
    ELSE IF remaining < mn THEN mn
    ELSE PyMod(remaining, mx + 1)

\* StrategicPlayer.move
StrategicMove(cur, mn, mx, gl) ==
    LET remaining == gl - cur IN
    IF remaining >= mx THEN mx
    ELSE IF remaining < mn THEN mn
    ELSE PyMod(remaining, mx + 1)

\* make_player: the else branch calls RandomPlayer() without a name
MakePlayerRaises(type) == type \notin {"random", "user", "strategic"}

\* make_player
make_player(name, type) == [name |-> name, kind |-> type]

(***************************************************************************)
(* Initial state: main() has not read anything yet.                        *)
(***************************************************************************)
NoWinner == [seat |-> 0, name |-> ""]

Init ==
    /\ goal = 0 /\ min_step = 0 /\ max_step = 0
    /\ current = 0 /\ turn = 0
    /\ players = << >>
    /\ pc = "main"
    /\ amount = 0
    /\ winner = NoWinner
    /\ log = << >>
    /\ asked = << >>
    /\ invalid = 0
    /\ round = 0
    /\ prevLog = << >>
    /\ prevWinner = NoWinner
    /\ error = ""

NewGame_KeepTurn ==
    /\ current' = 0
    /\ turn' = turn

\* NumberGame.__init__: the counter and the turn of a fresh session
NewGame ==
    /\ current' = 0
    /\ turn' = 0

\* main(), lines 160-166: read the settings, make the players, construct
\* the first NumberGame.  Configs is a set of <<goal, minimum, maximum>>.
MainInput(Configs, PTypes) ==
    /\ pc = "main"
    /\ \E c \in Configs, n1 \in P1Names, n2 \in P2Names, t1 \in PTypes, t2 \in PTypes :
        IF MakePlayerRaises(t1) \/ MakePlayerRaises(t2)
        THEN /\ pc' = "raised"
             /\ error' = "TypeError"
             /\ UNCHANGED <<goal, min_step, max_step, current, players, turn,
                            round>>
        ELSE /\ goal' = c[1]
             /\ min_step' = c[2]
             /\ max_step' = c[3]
             /\ players' = <<make_player(n1, t1), make_player(n2, t2)>>
             /\ NewGame
             /\ round' = 1
             /\ pc' = "play"
             /\ error' = error
    /\ UNCHANGED <<amount, winner, log, asked, invalid, prevLog, prevWinner>>


\* a caller other than main(): NumberGame(goal, min_step, max_step, (p1, p2))
\* with players of the given kinds, followed by play()
NewSession(Configs, Kinds) ==
    /\ pc = "main"
    /\ \E c \in Configs, n1 \in P1Names, n2 \in P2Names, k1 \in Kinds, k2 \in Kinds :
        /\ goal' = c[1]
        /\ min_step' = c[2]
        /\ max_step' = c[3]
        /\ players' = <<[name |-> n1, kind |-> k1], [name |-> n2, kind |-> k2]>>
    /\ NewGame
    /\ round' = 1
    /\ pc' = "play"
    /\ UNCHANGED <<amount, winner, log, asked, invalid, prevLog, prevWinner,
                   error>>

\* the player play_one_turn asks for a move
next_player == whose_turn(turn)


InRound_LE(cap) == pc = "play" /\ current <= goal /\ turn < cap

\* play(), line 61, together with the cap that stops an endless round
InRound(cap) == pc = "play" /\ current < goal /\ turn < cap


ApplyMove_Clamped(m) ==
    LET new == IF current + m > goal THEN goal ELSE current + m IN
    /\ amount' = m
    /\ current' = new
    /\ turn' = turn + 1
    /\ log' = Append(log, [mover  |-> next_player,
                           name   |-> players[next_player].name,
                           amount |-> m,
                           total  |-> new])

ApplyMove_Assign(m) ==
    /\ amount' = m
    /\ current' = m
    /\ turn' = turn + 1
    /\ log' = Append(log, [mover  |-> next_player,
                           name   |-> players[next_player].name,
                           amount |-> m,
                           total  |-> m])


ApplyMove_ClampStep(m) ==
    LET legal == IF m < min_step THEN min_step ELSE m IN
    /\ amount' = legal
    /\ current' = current + legal
    /\ turn' = turn + 1
    /\ log' = Append(log, [mover  |-> next_player,
                           name   |-> players[next_player].name,
                           amount |-> legal,
                           total  |-> current + legal])

\* play_one_turn, lines 90-94: apply the move `m` the mover returned
ApplyMove(m) ==
    /\ amount' = m
    /\ current' = current + m
    /\ turn' = turn + 1
    /\ log' = Append(log, [mover  |-> next_player,
                           name   |-> players[next_player].name,
                           amount |-> m,
                           total  |-> current + m])

\* play_one_turn when the mover is a RandomPlayer
RandomTurn(cap) ==
    /\ InRound(cap)
    /\ players[next_player].kind = "random"
    /\ IF RandomRaises(min_step, max_step)
       THEN /\ pc' = "raised"
            /\ error' = "ValueError"
            /\ UNCHANGED <<amount, current, turn, log>>
       ELSE /\ \E m \in RandomMoves(min_step, max_step) : ApplyMove(m)
            /\ UNCHANGED <<pc, error>>
    /\ UNCHANGED <<goal, min_step, max_step, players, winner, asked, invalid,
                   round, prevLog, prevWinner>>


StrategicTurn_SwapPlayers(cap) ==
    /\ InRound(cap)
    /\ players[next_player].kind = "strategic"
    /\ ApplyMove(StrategicMove(current, min_step, max_step, goal))
    /\ players' = <<players[2], players[1]>>
    /\ UNCHANGED <<goal, min_step, max_step, pc, winner, asked,
                   invalid, round, prevLog, prevWinner, error>>

\* play_one_turn when the mover is a StrategicPlayer
StrategicTurn(cap) ==
    /\ InRound(cap)
    /\ players[next_player].kind = "strategic"
    /\ ApplyMove(StrategicMove(current, min_step, max_step, goal))
    /\ UNCHANGED <<goal, min_step, max_step, players, pc, winner, asked,
                   invalid, round, prevLog, prevWinner, error>>


\* Player.move overridden by a subclass that never advances the counter
ZeroMove(cur, mn, mx, gl) == 0

\* play_one_turn when the mover is such a custom Player
ZeroTurn(cap) ==
    /\ InRound(cap)
    /\ players[next_player].kind = "zero"
    /\ ApplyMove(ZeroMove(current, min_step, max_step, goal))
    /\ UNCHANGED <<goal, min_step, max_step, players, pc, winner, asked,
                   invalid, round, prevLog, prevWinner, error>>

\* the integers the user types: the legal range, one value beyond each end, and 0
UserInputs == ((min_step - 1) .. (max_step + 1)) \cup {0}

\* play_one_turn when the mover is a UserPlayer: one pass of the loop of
\* UserPlayer.move, reading an integer.  An accepted input returns from move
\* and the rest of play_one_turn runs; a rejected one prints and loops.
UserInput(cap) ==
    /\ InRound(cap)
    /\ players[next_player].kind = "user"
    /\ \E v \in UserInputs :
        IF UserAccepts(v, min_step, max_step)
        THEN /\ ApplyMove(v)
             /\ asked' = << >>
             /\ invalid' = Len(asked)
        ELSE /\ Len(asked) < MaxRetry
             /\ asked' = Append(asked, v)
             /\ invalid' = Len(asked) + 1
             /\ UNCHANGED <<amount, current, turn, log>>
    /\ UNCHANGED <<goal, min_step, max_step, players, pc, winner, round,
                   prevLog, prevWinner, error>>


UserBadInput_Retry(cap) ==
    /\ InRound(cap)
    /\ players[next_player].kind = "user"
    /\ invalid' = Len(asked) + 1
    /\ UNCHANGED <<goal, min_step, max_step, current, players, turn, amount,
                   winner, log, asked, round, prevLog, prevWinner, pc, error>>

\* UserPlayer.move, line 118: int() of text that is no integer raises
UserBadInput(cap) ==
    /\ InRound(cap)
    /\ players[next_player].kind = "user"
    /\ pc' = "raised"
    /\ error' = "ValueError"
    /\ UNCHANGED <<goal, min_step, max_step, current, players, turn, amount,
                   winner, log, asked, invalid, round, prevLog, prevWinner>>


PlayReturn_Reset ==
    /\ pc = "play"
    /\ current >= goal
    /\ winner' = [seat |-> play_winner, name |-> players[play_winner].name]
    /\ pc' = "over"
    /\ current' = 0
    /\ turn' = 0
    /\ UNCHANGED <<goal, min_step, max_step, players, amount,
                   log, asked, invalid, round, prevLog, prevWinner, error>>

\* play(), lines 61-66: the loop ends and the winner is returned
PlayReturn ==
    /\ pc = "play"
    /\ current >= goal
    /\ winner' = [seat |-> play_winner, name |-> players[play_winner].name]
    /\ pc' = "over"
    /\ UNCHANGED <<goal, min_step, max_step, current, players, turn, amount,
                   log, asked, invalid, round, prevLog, prevWinner, error>>


\* a caller calls play() once more on the session whose play() has returned;
\* `winner` still holds what the first call returned
PlayAgain ==
    /\ pc = "over"
    /\ pc' = "play"
    /\ UNCHANGED <<goal, min_step, max_step, current, players, turn, amount,
                   winner, log, asked, invalid, round, prevLog, prevWinner,
                   error>>

\* main(), lines 168-173 and 166: print the winner, ask 'Again?', and either
\* construct a fresh NumberGame with the same settings and players or return
MainAgain(Answers) ==
    /\ pc = "over"
    /\ \E again \in Answers :
        IF again = "y"
        THEN /\ round < MaxRounds
             /\ NewGame
             /\ round' = round + 1
             /\ prevLog' = log
             /\ prevWinner' = winner
             /\ log' = << >>
             /\ winner' = NoWinner
             /\ amount' = 0
             /\ pc' = "play"
        ELSE /\ pc' = "done"
             /\ UNCHANGED <<current, turn, round, prevLog, prevWinner, log,
                            winner, amount>>
    /\ UNCHANGED <<goal, min_step, max_step, players, asked, invalid, error>>

(***************************************************************************)
(* Spec: main() with any settings up to MaxGoal and any player types.      *)
(***************************************************************************)
AnyConfigs == (0 .. MaxGoal) \X (0 .. MaxGoal + 1) \X (0 .. MaxGoal + 1)

Next ==
    \/ MainInput(AnyConfigs, PlayerTypes)
    \/ RandomTurn(MaxTurn)
    \/ StrategicTurn(MaxTurn)
    \/ UserInput(MaxTurn)
    \/ UserBadInput(MaxTurn)
    \/ PlayReturn
    \/ MainAgain({"n"})

Spec == Init /\ [][Next]_vars

(***************************************************************************)
(* SpecGreedy: both players are StrategicPlayers, goals up to              *)
(* MaxGreedyGoal, and main() plays up to MaxRounds rounds.                 *)
(***************************************************************************)
GreedyConfigs ==
    (0 .. MaxGreedyGoal) \X (0 .. MaxGreedyGoal + 1) \X (0 .. MaxGreedyGoal + 1)

NextGreedy ==
    \/ MainInput(GreedyConfigs, {"strategic"})
    \/ StrategicTurn(MaxGreedyTurn)
    \/ PlayReturn
    \/ MainAgain({"y", "n"})

SpecGreedy == Init /\ [][NextGreedy]_vars

\* play() is sequential code: its loop keeps running and then returns
FairGreedy ==
    /\ SpecGreedy
    /\ WF_vars(StrategicTurn(MaxGreedyTurn))
    /\ WF_vars(PlayReturn)

(***************************************************************************)
(* SpecFixed: min_step = max_step, any built-in players, goals up to       *)
(* MaxFixedGoal.                                                           *)
(***************************************************************************)
FixedConfigs ==
    {<<g, s, s>> : g \in 0 .. MaxFixedGoal, s \in 0 .. MaxFixedGoal + 1}

NextFixed ==
    \/ MainInput(FixedConfigs, {"random", "user", "strategic"})
    \/ RandomTurn(MaxFixedTurn)
    \/ StrategicTurn(MaxFixedTurn)
    \/ UserInput(MaxFixedTurn)
    \/ UserBadInput(MaxFixedTurn)
    \/ PlayReturn
    \/ MainAgain({"n"})

SpecFixed == Init /\ [][NextFixed]_vars

(***************************************************************************)
(* SpecStall: sessions built by a caller with valid configs, whose players *)
(* are UserPlayers or custom Players that always move 0.                   *)
(***************************************************************************)
ValidConfigs ==
    {c \in AnyConfigs : 0 < c[2] /\ c[2] <= c[3] /\ c[3] <= c[1]}

NextStall ==
    \/ NewSession(ValidConfigs, {"zero", "user"})
    \/ ZeroTurn(MaxTurn)
    \/ UserInput(MaxTurn)
    \/ UserBadInput(MaxTurn)
    \/ PlayReturn

SpecStall == Init /\ [][NextStall]_vars

(***************************************************************************)
(* SpecReplay: sessions built by a caller with any config up to MaxGoal    *)
(* and built-in players; the caller may call play() again on a session     *)
(* whose play() has returned.                                              *)
(***************************************************************************)
NextReplay ==
    \/ NewSession(AnyConfigs, {"random", "user", "strategic"})
    \/ RandomTurn(MaxTurn)
    \/ StrategicTurn(MaxTurn)
    \/ UserInput(MaxTurn)
    \/ UserBadInput(MaxTurn)
    \/ PlayReturn
    \/ PlayAgain

SpecReplay == Init /\ [][NextReplay]_vars

(***************************************************************************)
(* SpecMove: one call of StrategicPlayer.move on any valid config and any  *)
(* current from 0 to goal + 1.                                             *)
(***************************************************************************)
InitMove ==
    /\ goal \in 1 .. MaxGreedyGoal
    /\ max_step \in 1 .. goal
    /\ min_step \in 1 .. max_step
    /\ current \in 0 .. goal + 1
    /\ turn = 0
    /\ players = <<make_player("ann", "strategic"), make_player("bob", "strategic")>>
    /\ pc = "move"
    /\ amount = 0
    /\ winner = NoWinner
    /\ log = << >>
    /\ asked = << >>
    /\ invalid = 0
    /\ round = 1
    /\ prevLog = << >>
    /\ prevWinner = NoWinner
    /\ error = ""

\* amount = next_player.move(current, min_step, max_step, goal) for a
\* StrategicPlayer, alone
StrategicMoveCall ==
    /\ pc = "move"
    /\ amount' = StrategicMove(current, min_step, max_step, goal)
    /\ pc' = "moved"
    /\ UNCHANGED <<goal, min_step, max_step, current, players, turn, winner,
                   log, asked, invalid, round, prevLog, prevWinner, error>>

NextMove == StrategicMoveCall

SpecMove == InitMove /\ [][NextMove]_vars

(***************************************************************************)
(* Properties                                                              *)
(***************************************************************************)
Played == pc \in {"over", "done"}

BothStrategic ==
    /\ players # << >>
    /\ players[1].kind = "strategic"
    /\ players[2].kind = "strategic"

\* the totals printed this round, in order
Totals == [i \in 1 .. Len(log) |-> log[i].total]

\* C1: for every valid config and every sequence of moves, when play() has
\* returned, the name returned is that of the player who made the move that
\* first took current from below goal to >= goal (the last mover), never the
\* player who would move next.
C1_WinnerMadeLastMove ==
    (Played /\ ValidConfig) =>
        /\ Len(log) >= 1
        /\ Len(log) = turn
        /\ log[Len(log)].total >= goal
        /\ \A i \in 1 .. Len(log) - 1 : log[i].total < goal
        /\ winner.seat = log[Len(log)].mover
        /\ winner.name = players[log[Len(log)].mover].name
        /\ winner.seat # next_player

C1_Witness ==
    /\ pc = "over" /\ ValidConfig
    /\ Len(log) >= 3
    /\ current > goal
    /\ players[1].name # players[2].name

\* C2: for every valid config with a StrategicPlayer in both seats, play()
\* terminates, and the number of turns played in the round is at most
\* ceil(goal / min_step) + 1.
C2_GreedyTerminates ==
    /\ []((ValidConfig /\ BothStrategic) => turn <= CeilDiv(goal, min_step) + 1)
    /\ ((pc = "play" /\ ValidConfig /\ BothStrategic) ~> (pc = "over"))

C2_Witness ==
    /\ pc = "over" /\ ValidConfig /\ BothStrategic
    /\ turn >= 3
    /\ min_step < max_step

\* C3: StrategicPlayer.move, for every valid config and every current, with
\* remaining = goal - current: returns max_step if remaining >= max_step,
\* min_step if remaining < min_step, and otherwise the non-negative residue
\* of remaining modulo max_step + 1.
C3_StrategicMoveCases ==
    (pc = "moved") =>
        LET remaining == goal - current IN
        IF remaining >= max_step THEN amount = max_step
        ELSE IF remaining < min_step THEN amount = min_step
        ELSE /\ amount \in 0 .. max_step
             /\ \E q \in 0 .. remaining : remaining = q * (max_step + 1) + amount

C3_Witness ==
    /\ pc = "moved"
    /\ min_step <= goal - current
    /\ goal - current < max_step
    /\ current > 0

\* C4: the representation invariant documented on NumberGame,
\* 0 <= current <= goal, holds in every reachable state of a round for every
\* valid config and every pair of built-in players.
C4_RepInvariant ==
    (round >= 1 /\ ValidConfig) => (0 <= current /\ current <= goal)

\* C5: a session whose parameters violate the precondition (min_step <= 0,
\* or max_step < min_step, or max_step > goal) is rejected before any turn is
\* played: it never reaches a state in which a move has been applied.
C5_InvalidConfigRejected ==
    (round >= 1 /\ ~ValidConfig) => (turn = 0 /\ current = 0 /\ log = << >>)

\* C6: two rounds played in two fresh sessions with the same config and the
\* same two StrategicPlayers produce the identical winner and the identical
\* turn-by-turn sequence of (mover, amount, new total).
C6_RoundsRepeat ==
    (round >= 2 /\ BothStrategic) =>
        /\ Len(log) <= Len(prevLog)
        /\ log = SubSeq(prevLog, 1, Len(log))
        /\ Played => (log = prevLog /\ winner = prevWinner)

C6_Witness ==
    /\ round = 2 /\ pc = "over" /\ BothStrategic /\ ValidConfig
    /\ Len(log) >= 3
    /\ current > goal

\* C7: when both players are StrategicPlayers and the config is valid, a
\* round takes exactly ceil(goal / max_step) turns, so the winner is
\* players[1] iff that number is even; for goal=10, min_step=2, max_step=5
\* the totals are 5 then 10 and the winner is players[1].
C7_GreedyTurns ==
    (Played /\ ValidConfig /\ BothStrategic) =>
        /\ turn = CeilDiv(goal, max_step)
        /\ Len(log) = turn
        /\ (winner.seat = 2) <=> (turn % 2 = 0)
        /\ winner.name = players[winner.seat].name
        /\ (goal = 10 /\ min_step = 2 /\ max_step = 5) =>
               (Totals = <<5, 10>> /\ winner.seat = 2)

C7_Witness ==
    /\ pc = "over" /\ BothStrategic
    /\ goal = 10 /\ min_step = 2 /\ max_step = 5

\* C8: when min_step = max_step = s (valid config), for every pair of
\* built-in players the totals of a round are s, 2s, ..., the round ends
\* after exactly ceil(goal / s) turns, and the winner is players[0] iff that
\* number is odd; goal=7, s=3 gives totals 3, 6, 9 with winner players[0],
\* and s = goal gives exactly one turn with winner players[0].
C8_FixedStep ==
    (round >= 1 /\ ValidConfig /\ min_step = max_step) =>
        /\ \A i \in 1 .. Len(log) : log[i].total = i * min_step
        /\ Played =>
            /\ turn = CeilDiv(goal, min_step)
            /\ Len(log) = turn
            /\ (winner.seat = 1) <=> (turn % 2 = 1)
            /\ (goal = 7 /\ min_step = 3) =>
                   (Totals = <<3, 6, 9>> /\ winner.seat = 1)
            /\ (min_step = goal) => (turn = 1 /\ winner.seat = 1)

C8_Witness ==
    /\ pc = "over"
    /\ goal = 7 /\ min_step = 3 /\ max_step = 3
    /\ players[1].kind = "user" /\ players[2].kind = "random"

\* C9: whose_turn(t) returns players[0] iff t is even, for every t >= 0, so
\* within a round the k-th move (k = 0, 1, 2, ...) is made by
\* players[k mod 2]: movers alternate starting with players[0].
C9_MoversAlternate ==
    /\ \A t \in 0 .. turn : (whose_turn(t) = 1) <=> (t % 2 = 0)
    /\ \A i \in 1 .. Len(log) :
        /\ log[i].mover = (IF (i - 1) % 2 = 0 THEN 1 ELSE 2)
        /\ log[i].name = players[log[i].mover].name
    /\ \A i \in 1 .. Len(log) - 1 : log[i].mover # log[i + 1].mover

C9_Witness ==
    /\ pc = "over" /\ ValidConfig
    /\ Len(log) >= 4
    /\ players[1].kind # players[2].kind

\* the legal range of a move, written out
InRange(v) == min_step <= v /\ v <= max_step

\* C10: UserPlayer.move returns only a value v with min_step <= v <=
\* max_step: every out-of-range input is reported as invalid and
\* re-requested, while inputs are being rejected current and turn do not
\* change, and the value applied to the counter is the first in-range input.
C10_UserMoveInRange ==
    /\ [](/\ \A i \in 1 .. Len(asked) : ~InRange(asked[i])
          /\ \A i \in 1 .. Len(log) :
                players[log[i].mover].kind = "user" => InRange(log[i].amount)
          /\ Len(asked) > 0 => invalid = Len(asked))
    /\ [][/\ Len(asked') > Len(asked) =>
               /\ current' = current /\ turn' = turn
               /\ log' = log /\ pc' = pc
               /\ invalid' = invalid + 1 \/ Len(asked) = 0
          /\ (Len(log') > Len(log) /\ players[next_player].kind = "user") =>
               /\ InRange(amount')
               /\ current' = current + amount'
               /\ invalid' = Len(asked)
               /\ asked' = << >>]_vars

C10_Witness ==
    /\ pc = "over" /\ ValidConfig
    /\ players[log[Len(log)].mover].kind = "user"
    /\ invalid >= 1
    /\ Len(log) >= 2


\* a UserPlayer.move call is waiting for input
UserAsked == InRound(MaxTurn) /\ players[next_player].kind = "user"

\* C11: a malformed (non-integer) input given to UserPlayer.move is not
\* retried or defaulted: the failure propagates out of move, play_one_turn
\* and play, no move is applied for that request (current and turn keep
\* their values) and play returns no winner.
C11_BadInputPropagates ==
    /\ UserAsked =>
        ENABLED (/\ UserBadInput(MaxTurn)
                 /\ pc' = "raised" /\ error' = "ValueError"
                 /\ current' = current /\ turn' = turn /\ log' = log
                 /\ winner' = NoWinner)
    /\ pc = "raised" =>
        /\ winner = NoWinner
        /\ turn = Len(log)
        /\ ~ENABLED Next

C11_Witness ==
    /\ pc = "raised" /\ error = "ValueError" /\ ValidConfig
    /\ players[next_player].kind = "user"
    /\ turn >= 2 /\ current < goal
    /\ Len(asked) >= 1


\* C12: every play_one_turn sets current to exactly its previous value plus
\* the amount the mover returned (no clamping to the step range or to goal)
\* and increases turn by exactly 1; a new session starts with current = 0
\* and turn = 0, so with positive moves current never decreases and
\* 0 <= current and turn >= 0 hold in every reachable state.
C12_TurnUpdate ==
    /\ []((ValidConfig \/ round = 0) => (0 <= current /\ turn >= 0))
    /\ [][/\ Len(log') > Len(log) =>
               /\ current' = current + amount'
               /\ log'[Len(log')].amount = amount'
               /\ log'[Len(log')].total = current'
               /\ turn' = turn + 1
          /\ round' # round => (current' = 0 /\ turn' = 0)
          /\ (round' = round /\ (turn' # turn \/ current' # current)) =>
               Len(log') = Len(log) + 1
          /\ (round' = round /\ ValidConfig) =>
               (current' >= current /\ turn' >= turn)]_vars

C12_Witness ==
    /\ pc = "over" /\ ValidConfig
    /\ current > goal
    /\ amount < max_step
    /\ turn >= 3


\* C13: within play(), a move is only ever requested and applied in a state
\* where current < goal: once a play_one_turn has made current >= goal, no
\* further turn is played in that round, and turn stays at its value.
C13_NoTurnAfterGoal ==
    /\ [](\A i \in 1 .. Len(log) - 1 : log[i].total < goal)
    /\ [][/\ Len(log') > Len(log) => (pc = "play" /\ current < goal)
          /\ (round >= 1 /\ round' = round /\ current >= goal) =>
               (turn' = turn /\ current' = current /\ log' = log)]_vars

C13_Witness ==
    /\ pc = "done" /\ ValidConfig
    /\ current > goal
    /\ turn >= 2


\* StrategicPlayer.move takes its third branch (the else of line 134)
ThirdBranch(cur, mn, mx, gl) == ~(gl - cur >= mx) /\ ~(gl - cur < mn)

\* C14 (as stated): there exist a valid config and a current with
\* 0 <= current < goal for which StrategicPlayer.move takes its third branch
\* and returns a value below min_step, a move that fails to bring current
\* to goal.
C14_OutOfRangeExists ==
    /\ pc \in {"move", "moved"}
    /\ \E g \in 1 .. MaxGreedyGoal :
           \E mx \in 1 .. g :
               \E mn \in 1 .. mx :
                   \E c \in 0 .. g - 1 :
                       /\ ThirdBranch(c, mn, mx, g)
                       /\ StrategicMove(c, mn, mx, g) < mn
                       /\ c + StrategicMove(c, mn, mx, g) < g

\* C14 (amended): for every valid config and every current with
\* 0 <= current < goal, when StrategicPlayer.move takes its third branch it
\* returns exactly remaining = goal - current, which lies in
\* [min_step, max_step] and brings current exactly to goal.
C14_ThirdBranchExact ==
    (pc = "moved" /\ current < goal
        /\ ThirdBranch(current, min_step, max_step, goal)) =>
        /\ amount = goal - current
        /\ min_step <= amount /\ amount <= max_step
        /\ current + amount = goal

C14_Witness ==
    /\ pc = "moved" /\ current < goal
    /\ ThirdBranch(current, min_step, max_step, goal)
    /\ min_step >= 2
    /\ amount > min_step


\* C15: for every valid config and every current < goal, the move m returned
\* by StrategicPlayer.move overshoots the goal (current + m > goal) only if
\* goal - current < min_step; whenever goal - current >= min_step,
\* current + m <= goal, and when it does overshoot it does so by the
\* smallest legal amount (m = min_step).
C15_OvershootOnlyForced ==
    (pc = "moved" /\ current < goal) =>
        /\ current + amount > goal => (goal - current < min_step /\ amount = min_step)
        /\ goal - current >= min_step => current + amount <= goal
        /\ goal - current < min_step => current + amount > goal

C15_Witness ==
    /\ pc = "moved" /\ current < goal
    /\ current + amount > goal
    /\ min_step < max_step


\* C16: for every valid config and every sequence of moves that each lie in
\* [min_step, max_step] (any mix of Random, User and Strategic players), the
\* round terminates and the number of turns played is at least
\* ceil(goal / max_step) and at most ceil(goal / min_step).  Termination is
\* stated by its variant: the turns are bounded, and until play() returns
\* the round can always go on (a move can be requested, or play can return).
C16_TurnBounds ==
    (round >= 1 /\ ValidConfig) =>
        /\ \A i \in 1 .. Len(log) : InRange(log[i].amount)
        /\ turn = Len(log)
        /\ turn <= CeilDiv(goal, min_step)
        /\ Played => turn >= CeilDiv(goal, max_step)
        /\ (pc = "play" /\ current < goal) => InRound(MaxTurn)
        /\ (pc = "play" /\ current >= goal) => ENABLED PlayReturn

C16_Witness ==
    /\ pc = "over" /\ ValidConfig
    /\ turn = CeilDiv(goal, min_step)
    /\ turn > CeilDiv(goal, max_step)
    /\ players[1].kind = "user" /\ players[2].kind = "random"
    /\ turn >= 3


BothZero ==
    /\ players # << >>
    /\ players[1].kind = "zero"
    /\ players[2].kind = "zero"

\* C17: the turn loop has no turn-count ceiling and no abort state: with a
\* custom strategy that always returns 0, play() never reaches 'round
\* complete' (current stays below goal while turn keeps growing: whatever
\* the turn, the next one is played), and a UserPlayer fed only out-of-range
\* inputs blocks the round with turn unchanged.
C17_NoCeiling ==
    /\ BothZero =>
        /\ current = 0 /\ current < goal
        /\ pc = "play"
        /\ turn = Len(log)
        /\ turn < MaxTurn =>
            ENABLED (ZeroTurn(MaxTurn) /\ turn' = turn + 1 /\ current' = current)
        /\ ~ENABLED PlayReturn
    /\ (InRound(MaxTurn) /\ players[next_player].kind = "user") =>
        /\ \A i \in 1 .. Len(asked) : ~InRange(asked[i])
        /\ Len(asked) < MaxRetry =>
            ENABLED (/\ UserInput(MaxTurn)
                     /\ Len(asked') = Len(asked) + 1
                     /\ turn' = turn /\ current' = current
                     /\ pc' = "play")

C17_Witness ==
    /\ BothZero
    /\ turn = MaxTurn
    /\ current < goal
    /\ pc = "play"

C17_UserWitness ==
    /\ pc = "play"
    /\ players[next_player].kind = "user"
    /\ Len(asked) = MaxRetry
    /\ turn >= 1


\* C18: play_one_turn and play leave goal, min_step, max_step, the players
\* pair (and its order) and each player's name unchanged: the only session
\* fields a turn modifies are current and turn.
C18_ConfigFrame ==
    [][pc # "main" =>
         /\ goal' = goal /\ min_step' = min_step /\ max_step' = max_step
         /\ players' = players
         /\ \A i \in 1 .. Len(log) :
               log'[i] = log[i] /\ log[i].name = players[log[i].mover].name]_vars

C18_Witness ==
    /\ pc = "over" /\ ValidConfig
    /\ turn >= 3
    /\ players[1].kind = "strategic" /\ players[2].kind = "user"
    /\ players[1].name # players[2].name


\* C19: for every valid config and every sequence of moves that each lie in
\* [min_step, max_step], overshoot is bounded: current <= goal + max_step - 1
\* in every reachable state, so a completed round ends with
\* goal <= current <= goal + max_step - 1.
C19_OvershootBounded ==
    (round >= 1 /\ ValidConfig) =>
        /\ current <= goal + max_step - 1
        /\ Played => (goal <= current /\ current <= goal + max_step - 1)
        /\ \A i \in 1 .. Len(log) : log[i].total <= goal + max_step - 1

C19_Witness ==
    /\ pc = "over" /\ ValidConfig
    /\ current = goal + max_step - 1
    /\ max_step >= 3
    /\ min_step < max_step


\* play() has been called again on a session whose play() had returned
Replaying == pc = "play" /\ winner # NoWinner

\* C20: play() is idempotent on a completed session: calling play() again on
\* a NumberGame whose current is already >= goal plays no turn, requests no
\* move, leaves current and turn unchanged, and returns the same winner name
\* as the first call (the session does not reset itself).
C20_PlayIdempotent ==
    /\ [](Replaying =>
            /\ current >= goal
            /\ ~ENABLED RandomTurn(MaxTurn)
            /\ ~ENABLED StrategicTurn(MaxTurn)
            /\ ~ENABLED UserInput(MaxTurn)
            /\ ~ENABLED UserBadInput(MaxTurn)
            /\ ENABLED PlayReturn)
    /\ [][Replaying =>
            /\ pc' = "over"
            /\ winner' = winner
            /\ current' = current /\ turn' = turn
            /\ log' = log /\ asked' = asked /\ amount' = amount]_vars
    /\ [][pc = "over" => (current' = current /\ turn' = turn)]_vars

C20_Witness ==
    /\ Replaying
    /\ ValidConfig
    /\ current > goal
    /\ turn >= 2
    /\ winner.seat = 2

====
